---------------------------- MODULE Spec2Model ----------------------------
(***************************************************************************)
(* Model of the TI-Nspire file-service client:                             *)
(*   src/tinspire_device.py      TINspireDevice.file_write / file_read     *)
(*   src/tinspire_list_files.py  TINspireDevice.list_directory             *)
(* One action per transport call of an operation; the code that runs       *)
(* between that call and the next one is part of the action.  The device   *)
(* and the USB transport are the environment: every read returns a frame   *)
(* chosen by the device, every write or read may fault (usb USBError).     *)
(***************************************************************************)
EXTENDS Integers, Sequences, FiniteSets, TLC

\* ------------------------------------------------------------------ bounds
\* Uploads are 253*k and 253*k+1 bytes long for k in 0..MaxChunks.
MaxChunks == 2
\* Data reads the device answers in one download.
MaxReads == 3
\* Entry frames (other than the end marker) the device sends in one listing.
MaxEntries == 2

\* ------------------------------------------------------- program constants
SERVICE_FILE == 16480
CMD_WRITE_INIT == 769
CMD_READ == 1793
CMD_LIST_DIR == 13
CMD_NEXT_ENTRY == 14
CHUNK_MARKER == 5
CHUNK_DATA == 253
MAX_PACKET == 254
CLOSE_MARKER == 4
BEGIN_MARKER == 4
PROCEED_CODE == 4
ACK_COMPLETE == 65280
END_OF_LISTING == 255
HEADER_MIN == 16
NAME_OFFSET == 12

\* ------------------------------------------------------------ pure helpers
Min(a, b) == IF a < b THEN a ELSE b

Max(a, b) == IF a > b THEN a ELSE b

\* struct.pack(">H", n)
PackH(n) == << (n \div 256) % 256, n % 256 >>

\* struct.pack(">I", n)
PackI(n) == << (n \div 16777216) % 256, (n \div 65536) % 256,
               (n \div 256) % 256, n % 256 >>

\* struct.unpack(">I", b)[0] for a 4-byte b
UnpackI(b) == b[1] * 16777216 + b[2] * 65536 + b[3] * 256 + b[4]

\* Python index normalisation of a slice bound
SliceIndex(n, i) == IF i < 0 THEN Max(n + i, 0) ELSE Min(i, n)

\* Python s[a:b]
PySlice(s, a, b) == SubSeq(s, SliceIndex(Len(s), a) + 1, SliceIndex(Len(s), b))

\* Python s[a:]
PyTail(s, a) == SubSeq(s, SliceIndex(Len(s), a) + 1, Len(s))

\* str.encode('utf-8') of one code point
Utf8Char(cp) ==
    IF cp < 128 THEN << cp >>
    ELSE IF cp < 2048 THEN << 192 + (cp \div 64), 128 + (cp % 64) >>
    ELSE IF cp < 65536
         THEN << 224 + (cp \div 4096), 128 + ((cp \div 64) % 64), 128 + (cp % 64) >>
         ELSE << 240 + (cp \div 262144), 128 + ((cp \div 4096) % 64),
                 128 + ((cp \div 64) % 64), 128 + (cp % 64) >>

RECURSIVE Utf8Encode(_)
Utf8Encode(s) ==
    IF s = << >> THEN << >>
    ELSE IF Len(s) = 1 THEN Utf8Char(s[1])
    ELSE LET h == Len(s) \div 2
         IN  Utf8Encode(SubSeq(s, 1, h)) \o Utf8Encode(SubSeq(s, h + 1, Len(s)))

\* build_packet(cmd, path, payload)
build_packet(cmd, path, payload) == PackH(cmd) \o Utf8Encode(path) \o << 0 >> \o payload

\* ------------------------------------------------------------ inputs
\* A path of 65 characters that encodes to 257 bytes: "/" and 64 times
\* U+1F600, a character of four UTF-8 bytes.
LongPath == << 47 >> \o [ i \in 1..64 |-> 128512 ]

\* Remote paths, as sequences of code points: "/" with e-acute; "/", NUL,
\* "a"; and the long path.
Paths == { << 47, 233 >>, << 47, 0, 97 >>, LongPath }

\* The local file of n bytes.
FileOf(n) == [ i \in 1..n |-> ((i * 3) + 1) % 256 ]

UploadSizes == { CHUNK_DATA * k + d : k \in 0..MaxChunks, d \in 0..1 }

\* ------------------------------------------------------------ state
VARIABLES
    pc,             \* the next transport call of the running operation
    op,             \* the operation in progress or last run
    remote_path,    \* its path argument
    file_content,   \* file_write: the bytes to upload
    offset,         \* file_write: offset of the chunk loop
    file_size,      \* file_read: total size from the header
    bytes_left,     \* file_read: bytes_left of the receive loop
    data_received,  \* file_read: the accumulated buffer
    files,          \* list_directory: the accumulated entries
    calls,          \* the transport calls of the operation, in order
    state,          \* the service session: "Disconnected" or "Connected"
    startState,     \* the session state when the operation was invoked
    err,            \* the exception the operation raised, or "none"
    released,       \* close() has released the USB interface
    device,         \* the device at the other end: "any" or "faithful"
    store           \* the file a faithful device holds from the last upload

vars == << pc, op, remote_path, file_content, offset, file_size, bytes_left,
           data_received, files, calls, state, startState, err, released,
           device, store >>

\* One device.write(ENDPOINT_OUT, data): ok = FALSE when it raised USBError.
WriteCall(what, data, ok) ==
    [ dir |-> "w", what |-> what, data |-> data, req |-> 0, ok |-> ok, st |-> state ]

\* One device.read(ENDPOINT_IN, req): ok = FALSE when it raised USBError.
ReadCall(what, req, data, ok) ==
    [ dir |-> "r", what |-> what, data |-> data, req |-> req, ok |-> ok, st |-> state ]

DEFAULT_READ == 512

\* A faithful device before any upload holds no file.
NoFile == [ has |-> FALSE, path |-> << >>, data |-> << >> ]

\* The devices an operation may talk to: one that may answer anything, and
\* one that keeps what an upload sends and serves it back.
DeviceKinds == { "any", "faithful" }

Init ==
    /\ device \in DeviceKinds
    /\ store = NoFile
    /\ pc = "idle"
    /\ op = "none"
    /\ remote_path = << >>
    /\ file_content = << >>
    /\ offset = 0
    /\ file_size = 0
    /\ bytes_left = 0
    /\ data_received = << >>
    /\ files = << >>
    /\ calls = << >>
    /\ state = "Disconnected"
    /\ startState = "Disconnected"
    /\ err = "none"
    /\ released = FALSE

\* The caller invokes an operation on the device object.
Invoke ==
    /\ pc \in { "idle", "done" }
    /\ ~released
    /\ \E o \in { "file_write", "file_read", "list_directory" }, p \in Paths,
          n \in UploadSizes :
          /\ op' = o
          /\ remote_path' = p
          /\ file_content' = IF o = "file_write" THEN FileOf(n) ELSE << >>
          /\ o # "file_write" => n = 0
    /\ pc' = IF op' = "list_directory" THEN "ld_connect_w" ELSE "connect_w"
    /\ offset' = 0
    /\ file_size' = 0
    /\ bytes_left' = 0
    /\ data_received' = << >>
    /\ files' = << >>
    /\ calls' = << >>
    /\ startState' = state
    /\ err' = "none"
    /\ UNCHANGED << state, released, device, store >>


\* Every per-operation variable an action does not touch.
Locals == << remote_path, file_content, offset, file_size, bytes_left,
             data_received, files >>

\* ------------------------------------------------------------ the device
\* Frames the device may send in answer to the service id.
ConnectResponses == { << >>, PackH(SERVICE_FILE) }

\* Frames the device may send in answer to the write-init frame.
InitResponses == { << >>, << 4 >>, << 4, 0 >>, << 5 >>, << 255, 0 >> }

\* Frames the device may send after the last chunk of an upload.
FinalResponses == { << >>, << 255 >>, << 255, 0 >>, << 4, 255, 0 >>,
                    << 0, 255 >>, << 0, 0 >> }

\* The bytes between offset `from` and the first NUL after it: the path as
\* the device reads it out of a command frame.
WirePath(frame, from) ==
    LET nul == CHOOSE i \in (from + 1)..Len(frame) :
                   /\ frame[i] = 0
                   /\ \A j \in (from + 1)..(i - 1) : frame[j] # 0
    IN  SubSeq(frame, from + 1, nul - 1)

\* Concatenated payloads of the chunk frames the device received so far.
RECURSIVE Received(_)
Received(log) ==
    IF log = << >> THEN << >>
    ELSE LET c == log[Len(log)]
         IN  Received(SubSeq(log, 1, Len(log) - 1))
             \o (IF c.dir = "w" /\ c.what = "chunk" /\ c.ok
                 THEN Tail(c.data) ELSE << >>)

\* What a read returns: a frame of the device, or nothing when it faulted.
Answer(frames, ok) == IF ok THEN frames ELSE { << >> }

\* The connect answer of the device at hand.
ConnectFrames ==
    IF device = "faithful" THEN { PackH(SERVICE_FILE) } ELSE ConnectResponses

\* Its answer to the write-init frame.
InitFrames == IF device = "faithful" THEN { << 4 >> } ELSE InitResponses

\* Its answer after the last chunk: a faithful device confirms an upload
\* whose chunks add up to the size the init frame announced.
FinalFrames ==
    IF device = "faithful"
    THEN { IF Len(Received(calls)) = Len(file_content)
           THEN << 255, 0 >> ELSE << 0, 0 >> }
    ELSE FinalResponses

\* ------------------------------------------- tinspire_device.py: connect
\* connect_service with its self.read() left out: the write alone connects.
connect_service_write_noread ==
    /\ pc = "connect_w"
    /\ \E ok \in BOOLEAN :
          /\ calls' = Append(calls, WriteCall("connect", PackH(SERVICE_FILE), ok))
          /\ pc' = IF ~ok THEN "done"
                   ELSE IF op = "file_write" THEN "fw_init_w" ELSE "fr_request_w"
          /\ err' = IF ok THEN err ELSE "USBError"
          /\ state' = IF ok THEN "Connected" ELSE state
    /\ UNCHANGED << op, Locals, startState, released, device, store >>

\* connect_service: self.write(struct.pack(">H", service_id))
connect_service_write ==
    /\ pc = "connect_w"
    /\ \E ok \in BOOLEAN :
          /\ calls' = Append(calls, WriteCall("connect", PackH(SERVICE_FILE), ok))
          /\ pc' = IF ok THEN "connect_r" ELSE "done"
          /\ err' = IF ok THEN err ELSE "USBError"
    /\ UNCHANGED << op, Locals, state, startState, released, device, store >>

\* connect_service with a read that swallows the transport error and returns
\* b'' (the read of tinspire_device_test.py): the operation carries on.
connect_service_read_swallow ==
    /\ pc = "connect_r"
    /\ \E ok \in BOOLEAN : \E resp \in Answer(ConnectFrames, ok) :
          /\ calls' = Append(calls, ReadCall("connect", DEFAULT_READ, resp, ok))
          /\ pc' = IF op = "file_write" THEN "fw_init_w" ELSE "fr_request_w"
          /\ err' = err
          /\ state' = "Connected"
    /\ UNCHANGED << op, Locals, startState, released, device, store >>

\* connect_service: response = self.read(); the response is only logged.
connect_service_read ==
    /\ pc = "connect_r"
    /\ \E ok \in BOOLEAN : \E resp \in Answer(ConnectFrames, ok) :
          /\ calls' = Append(calls, ReadCall("connect", DEFAULT_READ, resp, ok))
          /\ pc' = IF ~ok THEN "done"
                   ELSE IF op = "file_write" THEN "fw_init_w" ELSE "fr_request_w"
          /\ err' = IF ok THEN err ELSE "USBError"
          /\ state' = IF ok THEN "Connected" ELSE state
    /\ UNCHANGED << op, Locals, startState, released, device, store >>

\* ---------------------------------------- tinspire_device.py: file_write
\* The chunk slice taken one byte too long.
ChunkAt_long(content, off) == PySlice(content, off, off + CHUNK_DATA + 1)

\* The chunk slice always taken from the start of the content.
ChunkAt_from0(content, off) == PySlice(content, 0, CHUNK_DATA)

\* file_content[offset:offset + 253]
ChunkAt(content, off) == PySlice(content, off, off + CHUNK_DATA)

\* The proceed check left out: any init response lets the upload go on.
InitRejected_never(response) == FALSE

\* response[0] != 0x04
InitRejected(response) == response[1] # PROCEED_CODE

\* The completion check reduced to the last byte of the response.
NotConfirmed_last(final_response) == PyTail(final_response, -1) # << 0 >>

\* final_response[-2:] != b'\xff\x00'
NotConfirmed(final_response) == PyTail(final_response, -2) # PackH(ACK_COMPLETE)

\* The init write with the read of its response left out.
file_write_init_write_noread ==
    /\ pc = "fw_init_w"
    /\ \E ok \in BOOLEAN :
          /\ calls' = Append(calls,
                 WriteCall("init",
                           build_packet(CMD_WRITE_INIT, remote_path,
                                        PackI(Len(file_content))), ok))
          /\ pc' = IF ~ok THEN "done"
                   ELSE IF 0 < Len(file_content) THEN "fw_chunk_w" ELSE "fw_final_r"
          /\ err' = IF ok THEN err ELSE "USBError"
    /\ UNCHANGED << op, Locals, state, startState, released, device, store >>

\* self.write(init_packet)
file_write_init_write ==
    /\ pc = "fw_init_w"
    /\ \E ok \in BOOLEAN :
          /\ calls' = Append(calls,
                 WriteCall("init",
                           build_packet(CMD_WRITE_INIT, remote_path,
                                        PackI(Len(file_content))), ok))
          /\ pc' = IF ok THEN "fw_init_r" ELSE "done"
          /\ err' = IF ok THEN err ELSE "USBError"
    /\ UNCHANGED << op, Locals, state, startState, released, device, store >>

\* response = self.read(); the proceed-code check; offset = 0 and the first
\* test of the chunk loop.
file_write_init_read ==
    /\ pc = "fw_init_r"
    /\ \E ok \in BOOLEAN : \E resp \in Answer(InitFrames, ok) :
          /\ calls' = Append(calls, ReadCall("init", DEFAULT_READ, resp, ok))
          /\ IF ~ok THEN pc' = "done" /\ err' = "USBError"
             ELSE IF resp = << >> THEN pc' = "done" /\ err' = "IndexError"
             ELSE IF InitRejected(resp) THEN pc' = "done" /\ err' = "InvalidInitResponse"
             ELSE /\ pc' = IF 0 < Len(file_content) THEN "fw_chunk_w" ELSE "fw_final_r"
                  /\ err' = err
    /\ offset' = 0
    /\ UNCHANGED << op, remote_path, file_content, file_size, bytes_left,
                    data_received, files, state, startState, released, device, store >>

\* One pass of the chunk loop: self.write(bytes([0x05]) + chunk);
\* offset += len(chunk); the loop test.
file_write_chunk_write ==
    /\ pc = "fw_chunk_w"
    /\ \E ok \in BOOLEAN :
          /\ calls' = Append(calls,
                 WriteCall("chunk", << CHUNK_MARKER >> \o ChunkAt(file_content, offset), ok))
          /\ IF ok
             THEN /\ offset' = offset + Len(ChunkAt(file_content, offset))
                  /\ pc' = IF offset' < Len(file_content) THEN "fw_chunk_w" ELSE "fw_final_r"
                  /\ err' = err
             ELSE /\ offset' = offset
                  /\ pc' = "done"
                  /\ err' = "USBError"
    /\ UNCHANGED << op, remote_path, file_content, file_size, bytes_left,
                    data_received, files, state, startState, released, device, store >>

\* final_response = self.read(); the completion-marker check.
file_write_final_read ==
    /\ pc = "fw_final_r"
    /\ \E ok \in BOOLEAN : \E resp \in Answer(FinalFrames, ok) :
          /\ calls' = Append(calls, ReadCall("final", DEFAULT_READ, resp, ok))
          /\ IF ~ok THEN pc' = "done" /\ err' = "USBError"
             ELSE IF NotConfirmed(resp) THEN pc' = "done" /\ err' = "UploadNotConfirmed"
             ELSE pc' = "close_w" /\ err' = err
          /\ store' = IF device = "faithful" /\ ok /\ resp = << 255, 0 >>
                      THEN [ has |-> TRUE,
                             path |-> WirePath(calls[3].data, 2),
                             data |-> Received(calls) ]
                      ELSE store
    /\ UNCHANGED << op, Locals, state, startState, released, device >>

\* close_service, as file_write and file_read call it on success:
\* self.device.write(ENDPOINT_OUT, b'\x04'); then the operation returns.
close_service_write ==
    /\ pc = "close_w"
    /\ \E ok \in BOOLEAN :
          /\ calls' = Append(calls, WriteCall("disconnect", << CLOSE_MARKER >>, ok))
          /\ err' = IF ok THEN err ELSE "USBError"
    /\ pc' = "done"
    /\ state' = "Disconnected"
    /\ UNCHANGED << op, Locals, startState, released, device, store >>

\* ----------------------------------------- tinspire_device.py: file_read
\* Total sizes the device may report in a download header.
ReadSizes == { 0, 1, 2, CHUNK_DATA, CHUNK_DATA + 1, 2 * CHUNK_DATA + 1 }

\* A header response: tag, ten bytes the client does not read, the size.
HeaderOf(tag, size) == tag \o << 0, 0, 0, 0, 0, 0, 0, 0, 0, 0 >> \o PackI(size)

\* Header responses the device may send to a read request.
HeaderResponses ==
    { HeaderOf(<< 3, 1 >>, n) : n \in ReadSizes }
    \cup { << >>,
           SubSeq(HeaderOf(<< 3, 1 >>, 1), 1, HEADER_MIN - 1),
           HeaderOf(<< 3, 2 >>, 1),
           HeaderOf(<< 7, 1 >>, 1),
           HeaderOf(<< 3, 1 >>, 2) \o << 9 >> }

\* The k-th data byte of the file the device serves.
DevByte(k) == ((k * 7) + 11) % 256

\* Lengths of the frame the device may return to a read of req bytes:
\* nothing, the marker alone, one byte short, the full request.
DataLens(req) == { 0, 1, req - 1, req } \cap 0..req

\* The frame of n bytes served after `sent` data bytes: marker, then data.
DataFrame(sent, n) ==
    IF n = 0 THEN << >>
    ELSE << CHUNK_MARKER >> \o [ j \in 1..(n - 1) |-> DevByte(sent + j) ]

\* The header check with the tag comparison left out.
HeaderInvalid_notag(header_response) == Len(header_response) < HEADER_MIN

\* The header answer of the device at hand: a faithful device reports the
\* size of the file it holds under the requested path, or refuses.
HeaderFrames ==
    IF device = "faithful"
    THEN { IF store.has /\ store.path = WirePath(calls[3].data, 2)
           THEN HeaderOf(<< 3, 1 >>, Len(store.data)) ELSE << 255, 0 >> }
    ELSE HeaderResponses

\* Frame lengths the device at hand may return to a read of req bytes after
\* `sent` data bytes: a faithful device fills the request from its file.
ServedLens(req, sent) ==
    IF device = "faithful"
    THEN { IF Len(store.data) > sent
           THEN Min(req, 1 + (Len(store.data) - sent)) ELSE 0 }
    ELSE DataLens(req)

\* The frame of n bytes the device at hand returns after `sent` data bytes.
ServedFrame(sent, n) ==
    IF device = "faithful"
    THEN IF n = 0 THEN << >>
         ELSE << CHUNK_MARKER >> \o SubSeq(store.data, sent + 1, sent + n - 1)
    ELSE DataFrame(sent, n)

\* len(header_response) < 16 or header_response[:2] != b'\x03\x01'
HeaderInvalid(header_response) ==
    \/ Len(header_response) < HEADER_MIN
    \/ PySlice(header_response, 0, 2) # << 3, 1 >>

\* The request always of the full packet size.
ChunkSize_fixed(left) == MAX_PACKET

\* The request for twice the bytes that are left.
ChunkSize_double(left) == Min((2 * left) + 1, MAX_PACKET)

\* The request one byte too long.
ChunkSize_plus2(left) == Min(left + 2, MAX_PACKET)

\* chunk_size = min(bytes_left + 1, 254)
ChunkSize(left) == Min(left + 1, MAX_PACKET)

\* The stall check left out.
Stalled_never(chunk) == FALSE

\* if not chunk
Stalled(chunk) == chunk = << >>

\* The marker byte kept in the data.
StripMarker_keep(chunk) == chunk

\* data_chunk = chunk[1:]
StripMarker(chunk) == PyTail(chunk, 1)

\* Data reads issued so far in this download.
DataReads == Cardinality({ i \in DOMAIN calls : calls[i].what = "data" })

\* self.write(read_packet)
file_read_request_write ==
    /\ pc = "fr_request_w"
    /\ \E ok \in BOOLEAN :
          /\ calls' = Append(calls,
                 WriteCall("request",
                           PackH(CMD_READ) \o Utf8Encode(remote_path) \o << 0 >>, ok))
          /\ pc' = IF ok THEN "fr_header_r" ELSE "done"
          /\ err' = IF ok THEN err ELSE "USBError"
    /\ UNCHANGED << op, Locals, state, startState, released, device, store >>

\* header_response = self.read(); the header check; file_size.
file_read_header_read ==
    /\ pc = "fr_header_r"
    /\ \E ok \in BOOLEAN : \E resp \in Answer(HeaderFrames, ok) :
          /\ calls' = Append(calls, ReadCall("header", DEFAULT_READ, resp, ok))
          /\ IF ~ok THEN pc' = "done" /\ err' = "USBError" /\ file_size' = file_size
             ELSE IF HeaderInvalid(resp)
                  THEN pc' = "fr_reject_w" /\ err' = err /\ file_size' = file_size
                  ELSE /\ pc' = "fr_begin_w"
                       /\ err' = err
                       /\ file_size' = UnpackI(PySlice(resp, 12, 16))
    /\ UNCHANGED << op, remote_path, file_content, offset, bytes_left,
                    data_received, files, state, startState, released, device, store >>

\* The invalid-header branch with its raise left out: the download goes on.
file_read_reject_close_noraise ==
    /\ pc = "fr_reject_w"
    /\ \E ok \in BOOLEAN :
          /\ calls' = Append(calls, WriteCall("disconnect", << CLOSE_MARKER >>, ok))
          /\ err' = IF ok THEN err ELSE "USBError"
          /\ pc' = IF ok THEN "fr_begin_w" ELSE "done"
    /\ state' = "Disconnected"
    /\ UNCHANGED << op, Locals, startState, released, device, store >>

\* The invalid-header branch: self.close_service(), then the raise.
file_read_reject_close ==
    /\ pc = "fr_reject_w"
    /\ \E ok \in BOOLEAN :
          /\ calls' = Append(calls, WriteCall("disconnect", << CLOSE_MARKER >>, ok))
          /\ err' = IF ok THEN "FileNotFound" ELSE "USBError"
    /\ pc' = "done"
    /\ state' = "Disconnected"
    /\ UNCHANGED << op, Locals, startState, released, device, store >>

\* The begin write with the first loop test left out: a data read follows
\* whatever the size.
file_read_begin_write_notest ==
    /\ pc = "fr_begin_w"
    /\ \E ok \in BOOLEAN :
          /\ calls' = Append(calls, WriteCall("begin", << BEGIN_MARKER >>, ok))
          /\ IF ok
             THEN /\ bytes_left' = file_size
                  /\ pc' = "fr_data_r"
                  /\ err' = err
             ELSE bytes_left' = bytes_left /\ pc' = "done" /\ err' = "USBError"
    /\ data_received' = << >>
    /\ UNCHANGED << op, remote_path, file_content, offset, file_size, files,
                    state, startState, released, device, store >>

\* self.write(b'\x04'); data_received, bytes_left; the first loop test.
file_read_begin_write ==
    /\ pc = "fr_begin_w"
    /\ \E ok \in BOOLEAN :
          /\ calls' = Append(calls, WriteCall("begin", << BEGIN_MARKER >>, ok))
          /\ IF ok
             THEN /\ bytes_left' = file_size
                  /\ pc' = IF bytes_left' > 0 THEN "fr_data_r" ELSE "fr_ack_w"
                  /\ err' = err
             ELSE bytes_left' = bytes_left /\ pc' = "done" /\ err' = "USBError"
    /\ data_received' = << >>
    /\ UNCHANGED << op, remote_path, file_content, offset, file_size, files,
                    state, startState, released, device, store >>

\* One pass of the receive loop: chunk = self.read(chunk_size); the stall
\* check; strip the marker, count, extend; the loop test.
file_read_data_read ==
    /\ pc = "fr_data_r"
    /\ DataReads < MaxReads
    /\ \E ok \in BOOLEAN :
       \E n \in (IF ok THEN ServedLens(ChunkSize(bytes_left), Len(data_received))
                       ELSE { 0 }) :
          LET chunk == ServedFrame(Len(data_received), n)
              data_chunk == StripMarker(chunk)
          IN  /\ calls' = Append(calls, ReadCall("data", ChunkSize(bytes_left), chunk, ok))
              /\ IF ~ok
                 THEN /\ pc' = "done" /\ err' = "USBError"
                      /\ UNCHANGED << bytes_left, data_received >>
                 ELSE IF Stalled(chunk)
                 THEN /\ pc' = "done" /\ err' = "UnexpectedTimeout"
                      /\ UNCHANGED << bytes_left, data_received >>
                 ELSE /\ bytes_left' = bytes_left - Len(data_chunk)
                      /\ data_received' = data_received \o data_chunk
                      /\ pc' = IF bytes_left' > 0 THEN "fr_data_r" ELSE "fr_ack_w"
                      /\ err' = err
    /\ UNCHANGED << op, remote_path, file_content, offset, file_size, files,
                    state, startState, released, device, store >>

\* self.write(struct.pack('>H', 0xFF00))
file_read_ack_write ==
    /\ pc = "fr_ack_w"
    /\ \E ok \in BOOLEAN :
          /\ calls' = Append(calls, WriteCall("ack", PackH(ACK_COMPLETE), ok))
          /\ pc' = IF ok THEN "close_w" ELSE "done"
          /\ err' = IF ok THEN err ELSE "USBError"
    /\ UNCHANGED << op, Locals, state, startState, released, device, store >>

\* ------------------------------- tinspire_list_files.py: list_directory
\* Length of the UTF-8 sequence that starts b, or 0 when b does not start
\* with a well-formed one (what bytes.decode('utf-8') rejects).
Utf8SeqLen(b) ==
    LET cont(i) == i <= Len(b) /\ b[i] >= 128 /\ b[i] <= 191
    IN  IF b[1] < 128 THEN 1
        ELSE IF b[1] >= 194 /\ b[1] <= 223 /\ cont(2) THEN 2
        ELSE IF /\ b[1] >= 224 /\ b[1] <= 239 /\ cont(2) /\ cont(3)
                /\ (b[1] = 224 => b[2] >= 160)
                /\ (b[1] = 237 => b[2] <= 159) THEN 3
        ELSE IF /\ b[1] >= 240 /\ b[1] <= 244 /\ cont(2) /\ cont(3) /\ cont(4)
                /\ (b[1] = 240 => b[2] >= 144)
                /\ (b[1] = 244 => b[2] <= 143) THEN 4
        ELSE 0

\* The code point of the well-formed sequence of n bytes that starts b.
Utf8CodePoint(b, n) ==
    IF n = 1 THEN b[1]
    ELSE IF n = 2 THEN ((b[1] - 192) * 64) + (b[2] - 128)
    ELSE IF n = 3 THEN ((b[1] - 224) * 4096) + ((b[2] - 128) * 64) + (b[3] - 128)
    ELSE ((b[1] - 240) * 262144) + ((b[2] - 128) * 4096)
         + ((b[3] - 128) * 64) + (b[4] - 128)

\* bytes.decode('utf-8') succeeds
RECURSIVE Utf8Valid(_)
Utf8Valid(b) ==
    \/ b = << >>
    \/ /\ Utf8SeqLen(b) > 0
       /\ Utf8Valid(SubSeq(b, Utf8SeqLen(b) + 1, Len(b)))

\* bytes.decode('utf-8') of well-formed bytes, as code points
RECURSIVE Utf8Decode(_)
Utf8Decode(b) ==
    IF b = << >> THEN << >>
    ELSE << Utf8CodePoint(b, Utf8SeqLen(b)) >>
         \o Utf8Decode(SubSeq(b, Utf8SeqLen(b) + 1, Len(b)))

\* entry.find(b'\x00', start): the lowest index >= start holding NUL, or -1
FindNul(entry, start) ==
    LET hits == { i \in start..(Len(entry) - 1) : entry[i + 1] = 0 }
    IN  IF hits = { } THEN -1
        ELSE CHOOSE i \in hits : \A j \in hits : i <= j

\* The bytes of the name: entry[12:name_end]
NameBytes(entry) == PySlice(entry, NAME_OFFSET, FindNul(entry, NAME_OFFSET))

\* The exception decoding a non-end entry frame raises, or "none".
DecodeError(entry) ==
    IF Len(entry) < 2 THEN "IndexError"
    ELSE IF Len(PySlice(entry, 4, 8)) # 4 \/ Len(PySlice(entry, 8, 12)) # 4
         THEN "StructError"
    ELSE IF ~Utf8Valid(NameBytes(entry)) THEN "UnicodeDecodeError"
    ELSE "none"

\* The entry decoded with the size taken from the timestamp field.
DecodeEntry_datesize(entry) ==
    [ name |-> Utf8Decode(NameBytes(entry)),
      size |-> UnpackI(PySlice(entry, 8, 12)),
      type |-> IF entry[2] # 0 THEN "dir" ELSE "file" ]

\* The dictionary appended to files for a decodable entry frame.
DecodeEntry(entry) ==
    [ name |-> Utf8Decode(NameBytes(entry)),
      size |-> UnpackI(PySlice(entry, 4, 8)),
      type |-> IF entry[2] # 0 THEN "dir" ELSE "file" ]

\* An entry frame as the device lays it out, without the name terminator.
EntryHead(type, size, date) == << 16, type, 0, 0 >> \o PackI(size) \o PackI(date)

\* Frames the device may send in answer to the list-dir frame.
ListResponses == { << >>, << 0, 0 >> }

\* Frames the device may send in answer to a next-entry request.
EntryFrames ==
    { << END_OF_LISTING >>,
      << END_OF_LISTING, 0 >>,
      EntryHead(0, 5, 7) \o << 97, 0 >>,
      EntryHead(1, 0, 7) \o << 195, 169, 0, 98, 0 >>,
      << >>,
      << 16 >>,
      << 16, 0, 0, 0, 0, 0 >>,
      EntryHead(0, 5, 7),
      EntryHead(0, 5, 7) \o << 97, 98 >>,
      EntryHead(0, 5, 7) \o << 195, 0 >> }

\* The answer of the device at hand to the list-dir frame.
ListFrames == IF device = "faithful" THEN { << 0, 0 >> } ELSE ListResponses

\* Its answer to a next-entry request: a faithful device lists the file it
\* holds, then sends the end marker.
ServedEntries ==
    IF device = "faithful"
    THEN { IF store.has /\ files = << >>
           THEN EntryHead(0, Len(store.data), 0) \o store.path \o << 0 >>
           ELSE << END_OF_LISTING >> }
    ELSE EntryFrames

\* connect_service: self.write(struct.pack('>H', self.SERVICE_FILE))
list_connect_service_write ==
    /\ pc = "ld_connect_w"
    /\ \E ok \in BOOLEAN :
          /\ calls' = Append(calls, WriteCall("connect", PackH(SERVICE_FILE), ok))
          /\ pc' = IF ok THEN "ld_connect_r" ELSE "done"
          /\ err' = IF ok THEN err ELSE "USBError"
    /\ UNCHANGED << op, Locals, state, startState, released, device, store >>

\* connect_service: self.read(), the response ignored
list_connect_service_read ==
    /\ pc = "ld_connect_r"
    /\ \E ok \in BOOLEAN : \E resp \in Answer(ConnectFrames, ok) :
          /\ calls' = Append(calls, ReadCall("connect", DEFAULT_READ, resp, ok))
          /\ pc' = IF ok THEN "ld_listdir_w" ELSE "done"
          /\ err' = IF ok THEN err ELSE "USBError"
          /\ state' = IF ok THEN "Connected" ELSE state
    /\ UNCHANGED << op, Locals, startState, released, device, store >>

\* self.write(bytes([0x0D]) + path.encode('utf-8') + b'\x00')
list_directory_listdir_write ==
    /\ pc = "ld_listdir_w"
    /\ \E ok \in BOOLEAN :
          /\ calls' = Append(calls,
                 WriteCall("listdir",
                           << CMD_LIST_DIR >> \o Utf8Encode(remote_path) \o << 0 >>, ok))
          /\ pc' = IF ok THEN "ld_initial_r" ELSE "done"
          /\ err' = IF ok THEN err ELSE "USBError"
    /\ UNCHANGED << op, Locals, state, startState, released, device, store >>

\* response = self.read(), only logged; files = []
list_directory_initial_read ==
    /\ pc = "ld_initial_r"
    /\ \E ok \in BOOLEAN : \E resp \in Answer(ListFrames, ok) :
          /\ calls' = Append(calls, ReadCall("initial", DEFAULT_READ, resp, ok))
          /\ pc' = IF ok THEN "ld_next_w" ELSE "done"
          /\ err' = IF ok THEN err ELSE "USBError"
    /\ files' = << >>
    /\ UNCHANGED << op, remote_path, file_content, offset, file_size, bytes_left,
                    data_received, state, startState, released, device, store >>

\* self.write(b'\x0E')
list_directory_next_write ==
    /\ pc = "ld_next_w"
    /\ \E ok \in BOOLEAN :
          /\ calls' = Append(calls, WriteCall("next", << CMD_NEXT_ENTRY >>, ok))
          /\ pc' = IF ok THEN "ld_entry_r" ELSE "done"
          /\ err' = IF ok THEN err ELSE "USBError"
    /\ UNCHANGED << op, Locals, state, startState, released, device, store >>

\* The listing loop giving up after the first entry: it disconnects and
\* returns without having seen the end marker.
list_directory_entry_read_once ==
    /\ pc = "ld_entry_r"
    /\ \E ok \in BOOLEAN : \E entry \in Answer(ServedEntries, ok) :
          /\ (Len(files) >= MaxEntries /\ ok) =>
                 (entry # << >> /\ entry[1] = END_OF_LISTING)
          /\ calls' = Append(calls, ReadCall("entry", DEFAULT_READ, entry, ok))
          /\ IF ~ok THEN pc' = "done" /\ err' = "USBError" /\ files' = files
             ELSE IF entry = << >>
             THEN pc' = "done" /\ err' = "IndexError" /\ files' = files
             ELSE IF entry[1] = END_OF_LISTING
             THEN pc' = "ld_disconnect_w" /\ err' = err /\ files' = files
             ELSE IF DecodeError(entry) # "none"
             THEN pc' = "done" /\ err' = DecodeError(entry) /\ files' = files
             ELSE /\ files' = Append(files, DecodeEntry(entry))
                  /\ pc' = "ld_disconnect_w"
                  /\ err' = err
    /\ UNCHANGED << op, remote_path, file_content, offset, file_size, bytes_left,
                    data_received, state, startState, released, device, store >>

\* entry = self.read(); the end-marker test; the decoding; files.append
list_directory_entry_read ==
    /\ pc = "ld_entry_r"
    /\ \E ok \in BOOLEAN : \E entry \in Answer(ServedEntries, ok) :
          /\ (Len(files) >= MaxEntries /\ ok) =>
                 (entry # << >> /\ entry[1] = END_OF_LISTING)
          /\ calls' = Append(calls, ReadCall("entry", DEFAULT_READ, entry, ok))
          /\ IF ~ok THEN pc' = "done" /\ err' = "USBError" /\ files' = files
             ELSE IF entry = << >>
             THEN pc' = "done" /\ err' = "IndexError" /\ files' = files
             ELSE IF entry[1] = END_OF_LISTING
             THEN pc' = "ld_disconnect_w" /\ err' = err /\ files' = files
             ELSE IF DecodeError(entry) # "none"
             THEN pc' = "done" /\ err' = DecodeError(entry) /\ files' = files
             ELSE /\ files' = Append(files, DecodeEntry(entry))
                  /\ pc' = "ld_next_w"
                  /\ err' = err
    /\ UNCHANGED << op, remote_path, file_content, offset, file_size, bytes_left,
                    data_received, state, startState, released, device, store >>

\* disconnect_service: self.write(b'\x04'); then list_directory returns files
list_disconnect_service_write ==
    /\ pc = "ld_disconnect_w"
    /\ \E ok \in BOOLEAN :
          /\ calls' = Append(calls, WriteCall("disconnect", << CLOSE_MARKER >>, ok))
          /\ err' = IF ok THEN err ELSE "USBError"
    /\ pc' = "done"
    /\ state' = "Disconnected"
    /\ UNCHANGED << op, Locals, startState, released, device, store >>

\* tinspire_device.py disconnect_service, called by the caller between
\* operations: self.write(b'\xff').
disconnect_service ==
    /\ pc \in { "idle", "done" }
    /\ ~released
    /\ \E ok \in BOOLEAN :
          /\ calls' = << WriteCall("disconnect", << 255 >>, ok) >>
          /\ err' = IF ok THEN "none" ELSE "USBError"
    /\ op' = "disconnect_service"
    /\ pc' = "done"
    /\ state' = "Disconnected"
    /\ startState' = state
    /\ remote_path' = << >>
    /\ file_content' = << >>
    /\ offset' = 0
    /\ file_size' = 0
    /\ bytes_left' = 0
    /\ data_received' = << >>
    /\ files' = << >>
    /\ UNCHANGED << released, device, store >>

\* close(): release_interface and dispose_resources, from the caller's finally.
close ==
    /\ pc \in { "idle", "done" }
    /\ ~released
    /\ released' = TRUE
    /\ pc' = "closed"
    /\ UNCHANGED << op, Locals, calls, state, startState, err, device, store >>

Next ==
    \/ Invoke
    \/ connect_service_write
    \/ connect_service_read
    \/ file_write_init_write
    \/ file_write_init_read
    \/ file_write_chunk_write
    \/ file_write_final_read
    \/ close_service_write
    \/ file_read_request_write
    \/ file_read_header_read
    \/ file_read_reject_close
    \/ file_read_begin_write
    \/ file_read_data_read
    \/ file_read_ack_write
    \/ list_connect_service_write
    \/ list_connect_service_read
    \/ list_directory_listdir_write
    \/ list_directory_initial_read
    \/ list_directory_next_write
    \/ list_directory_entry_read
    \/ list_disconnect_service_write
    \/ disconnect_service
    \/ close

Spec == Init /\ [][Next]_vars


\* ------------------------------------------------------------ properties
\* The file and directory operations.
Operations == { "file_write", "file_read", "list_directory" }

\* The last transport call of the operation.
LastCall == calls[Len(calls)]

\* A write of the one-byte disconnect marker 0x04 issued to end the service.
IsDisconnectWrite(c) == c.dir = "w" /\ c.what = "disconnect" /\ c.data = << 4 >>

\* The connect handshake of the operation succeeded: write, then read.
HandshakeDone ==
    /\ Len(calls) >= 2
    /\ calls[1].dir = "w" /\ calls[1].ok
    /\ calls[2].dir = "r" /\ calls[2].ok

\* The operation has returned or raised.
Ended == op # "none" /\ pc \in { "done", "closed" }

\* Indices of the writes issued by the statement `what`.
WritesOf(what) == { i \in DOMAIN calls : calls[i].dir = "w" /\ calls[i].what = what }

\* The write-init response was read and its first byte is not 0x04.
InitRefused ==
    /\ op = "file_write"
    /\ Len(calls) >= 4
    /\ calls[4].dir = "r" /\ calls[4].what = "init" /\ calls[4].ok
    /\ calls[4].data # << >>
    /\ calls[4].data[1] # 4

\* C1: in file_write, a write-init response whose first byte is not 0x04
\* ends the operation with the rejection error, no 0x05 chunk frame is
\* written, and the disconnect marker is the last thing written before the
\* error reaches the caller.
C1_RejectedInitDisconnects ==
    InitRefused =>
        /\ WritesOf("chunk") = { }
        /\ Ended => /\ err = "InvalidInitResponse"
                    /\ IsDisconnectWrite(LastCall)

\* C2: every operation that ends with an error after its connect handshake
\* succeeded has attempted a disconnect write after the failing step: the
\* disconnect write is its last transport call.
C2_ErrorAfterConnectDisconnects ==
    (Ended /\ err # "none" /\ HandshakeDone) => IsDisconnectWrite(LastCall)

\* The download header was read and is shorter than 16 bytes or does not
\* start with 0x03 0x01.
HeaderMalformed ==
    /\ op = "file_read"
    /\ Len(calls) >= 4
    /\ calls[4].dir = "r" /\ calls[4].what = "header" /\ calls[4].ok
    /\ \/ Len(calls[4].data) < 16
       \/ SubSeq(calls[4].data, 1, 2) # << 3, 1 >>

\* C3: in file_read, a header shorter than 16 bytes or with the wrong tag
\* is followed by the disconnect write and by nothing else: no begin byte,
\* no data read, no 0xFF00 acknowledgment; the operation ends with the
\* file-not-found error, raised once the disconnect write has returned.
C3_MalformedHeaderRejected ==
    HeaderMalformed =>
        /\ \A i \in DOMAIN calls : calls[i].what \notin { "begin", "data", "ack" }
        /\ Len(calls) <= 5
        /\ pc = "fr_reject_w" \/ Ended
        /\ Ended => /\ Len(calls) = 5
                    /\ IsDisconnectWrite(calls[5])
                    /\ err # "none"
                    /\ calls[5].ok => err = "FileNotFound"

\* C3 witness: a 16-byte header with the wrong tag was rejected.
C3_Witness ==
    /\ HeaderMalformed
    /\ Len(calls[4].data) = 16
    /\ Ended
    /\ err = "FileNotFound"

\* The total size in bytes 12..16 of the header the device sent.
HeaderTotal ==
    LET h == calls[4].data
    IN  (h[13] * 16777216) + (h[14] * 65536) + (h[15] * 256) + h[16]

\* C4: in file_read a zero-length read in the receive loop (bytes_left is
\* then greater than zero) ends the operation at once with the
\* unexpected-timeout error, and a successful file_read never returns fewer
\* bytes than the header's total size.
C4_StallIsFatal ==
    /\ \A i \in DOMAIN calls :
          (calls[i].what = "data" /\ calls[i].ok /\ calls[i].data = << >>) =>
              /\ i = Len(calls)
              /\ bytes_left > 0
              /\ Ended
              /\ err = "UnexpectedTimeout"
    /\ (op = "file_read" /\ Ended /\ err = "none") =>
          Len(data_received) >= HeaderTotal

\* C4 witness: the download stalled after part of the file had arrived.
C4_Witness ==
    /\ op = "file_read"
    /\ Ended
    /\ err = "UnexpectedTimeout"
    /\ data_received # << >>
    /\ bytes_left > 0

\* C5: the transport is released only after the session's disconnect write:
\* never while the service session is still Connected.
C5_DisconnectBeforeRelease ==
    released =>
        /\ state = "Disconnected"
        /\ HandshakeDone => IsDisconnectWrite(LastCall)

\* C6 (as stated): an operation invoked while the session is Disconnected
\* issues no transport call and fails.
C6_FailFastWhenDisconnected ==
    (op \in Operations /\ startState = "Disconnected") =>
        /\ calls = << >>
        /\ Ended => err # "none"

\* The first byte sequence an operation writes after the handshake.
CommandFrameOf(o) ==
    IF o = "file_write" THEN "init"
    ELSE IF o = "file_read" THEN "request" ELSE "listdir"

\* C6 (amended): an operation invoked while the session is Disconnected does
\* not fail fast: its first transport call is the write of the service id
\* 0x40 0x60, the second is one read, and its command frame is written
\* third, only when both succeeded.
C6_ConnectsItself ==
    (op \in Operations /\ startState = "Disconnected") =>
        /\ Ended => calls # << >>
        /\ Len(calls) >= 1 =>
              /\ calls[1].dir = "w" /\ calls[1].data = << 64, 96 >>
              /\ calls[1].st = "Disconnected"
        /\ Len(calls) >= 2 =>
              /\ calls[1].ok
              /\ calls[2].dir = "r" /\ calls[2].what = "connect"
        /\ Len(calls) >= 3 =>
              /\ calls[2].ok
              /\ calls[3].dir = "w" /\ calls[3].what = CommandFrameOf(op)
              /\ calls[3].st = "Connected"

\* C6 witness: an operation invoked while Disconnected has ended after
\* writing its command frame.
C6_Witness ==
    /\ op \in Operations
    /\ startState = "Disconnected"
    /\ Ended
    /\ Len(calls) >= 3

\* The statements that write a command frame.
CommandWrites == { "init", "chunk", "request", "begin", "ack", "listdir", "next" }

\* C7: every command frame of an operation is written while the session is
\* Connected: after the operation's connect write and response read, and
\* before its disconnect write.
C7_CommandsWhileConnected ==
    \A i \in DOMAIN calls :
        (calls[i].dir = "w" /\ calls[i].what \in CommandWrites) =>
            /\ calls[i].st = "Connected"
            /\ i > 2
            /\ HandshakeDone
            /\ calls[1].what = "connect" /\ calls[2].what = "connect"
            /\ \A j \in 1..(i - 1) : calls[j].what # "disconnect"

\* C7 witness: a download wrote its request, begin byte and acknowledgment
\* and then disconnected.
C7_Witness ==
    /\ op = "file_read"
    /\ Ended
    /\ err = "none"
    /\ WritesOf("request") # { }
    /\ WritesOf("begin") # { }
    /\ WritesOf("ack") # { }
    /\ IsDisconnectWrite(LastCall)

\* C8 (as stated): in every operation a write is followed by a read, and
\* by one read only, before the next write.
C8_StrictRequestResponse ==
    \A i \in 1..(Len(calls) - 1) :
        /\ calls[i].dir = "w" => calls[i + 1].dir = "r"
        /\ calls[i].dir = "r" => calls[i + 1].dir = "w"

\* C8 (amended): writes and reads alternate in every operation except for
\* these runs: file_write's 0x05 chunk frames follow one another with no
\* read between them, file_read's data reads follow one another after the
\* begin byte, and file_read writes the 0xFF00 acknowledgment and then the
\* disconnect marker with no read between them (the acknowledgment directly
\* after the begin byte when the total size is 0), and file_write of an
\* empty file reads the init response and then the final response with no
\* write between them.
C8_AlternationExceptBulk ==
    \A i \in 1..(Len(calls) - 1) :
        /\ (calls[i].dir = "w" /\ calls[i + 1].dir = "w") =>
              \/ op = "file_write" /\ calls[i].what = "chunk"
                                   /\ calls[i + 1].what = "chunk"
              \/ op = "file_read" /\ calls[i].what = "begin"
                                  /\ calls[i + 1].what = "ack"
                                  /\ HeaderTotal = 0
              \/ op = "file_read" /\ calls[i].what = "ack"
                                  /\ calls[i + 1].what = "disconnect"
        /\ (calls[i].dir = "r" /\ calls[i + 1].dir = "r") =>
              \/ op = "file_read" /\ calls[i].what = "data"
                                  /\ calls[i + 1].what = "data"
              \/ op = "file_write" /\ calls[i].what = "init"
                                   /\ calls[i + 1].what = "final"
                                   /\ file_content = << >>

\* C8 witness: an upload of more than one chunk succeeded.
C8_Witness ==
    /\ op = "file_write"
    /\ Ended
    /\ err = "none"
    /\ Cardinality(WritesOf("chunk")) >= 2

\* The chunk loop of file_write has finished.
ChunkLoopDone ==
    /\ op = "file_write"
    /\ \/ pc \in { "fw_final_r", "close_w" }
       \/ \E i \in DOMAIN calls : calls[i].what = "final"

\* Payload length of the frame written by call i.
Payload(i) == Len(calls[i].data) - 1

\* C9: once the chunk loop is over, an upload of 253*k bytes has written
\* exactly k chunk frames of 253 payload bytes each (none for k = 0, and no
\* trailing empty chunk), and an upload of 253*k + 1 bytes has written k
\* chunk frames of 253 payload bytes followed by one of 1 payload byte.
C9_ChunkBoundary ==
    ChunkLoopDone =>
        LET n == Len(file_content)
            k == n \div 253
            c == WritesOf("chunk")
        IN  /\ \A i \in c : calls[i].data[1] = 5
            /\ (n % 253 = 0) =>
                  /\ c = 5..(4 + k)
                  /\ \A i \in c : Payload(i) = 253
            /\ (n % 253 = 1) =>
                  /\ c = 5..(5 + k)
                  /\ \A i \in 5..(4 + k) : Payload(i) = 253
                  /\ Payload(5 + k) = 1

\* C9 witness: an upload of 506 = 2 * 253 bytes was confirmed.
C9_Witness ==
    /\ op = "file_write"
    /\ Len(file_content) = 506
    /\ Ended
    /\ err = "none"

\* C10: a successful file_read returns a buffer whose length is the total
\* size in bytes 12..16 of the header, the device returning at most the
\* requested number of bytes on every read.
C10_LengthEqualsTotal ==
    (op = "file_read" /\ Ended /\ err = "none") =>
        /\ \A i \in DOMAIN calls :
              calls[i].dir = "r" => Len(calls[i].data) <= calls[i].req
        /\ Len(data_received) = HeaderTotal

\* C10 witness: a download of 254 bytes succeeded in three data reads, so
\* one of them came back short.
C10_Witness ==
    /\ op = "file_read"
    /\ Ended
    /\ err = "none"
    /\ HeaderTotal = 254
    /\ DataReads = 3

\* C11: during file_read the number of bytes transferred strictly increases
\* at every chunk step of the receive loop (a data read that does not end
\* the operation), and equals the header's total size when the loop is over.
C11_TransferredStrictlyIncreases ==
    /\ [][ (pc = "fr_data_r" /\ pc' \in { "fr_data_r", "fr_ack_w" }) =>
               Len(data_received') > Len(data_received) ]_vars
    /\ [](pc = "fr_ack_w" => Len(data_received) = HeaderTotal)

\* list_directory has returned its list to the caller.
ListingReturned == op = "list_directory" /\ Ended /\ err = "none"

\* The request/response pair of the k-th turn of the listing loop.
NextWriteAt(k) == calls[3 + (2 * k)]
EntryReadAt(k) == calls[4 + (2 * k)]

\* The fields of entry frame d as the wire layout gives them: type byte at
\* offset 1, size big-endian at offsets 4..7, name from offset 12 up to NUL.
EntryMatches(f, d) ==
    /\ f.type = (IF d[2] = 0 THEN "file" ELSE "dir")
    /\ f.size = (d[5] * 16777216) + (d[6] * 65536) + (d[7] * 256) + d[8]
    /\ (\E e \in 13..Len(d) : d[e] = 0) =>
           \E e \in 13..Len(d) :
               /\ d[e] = 0
               /\ \A j \in 13..(e - 1) : d[j] # 0
               /\ Utf8Encode(f.name) = SubSeq(d, 13, e - 1)

\* C12: when the device sends n entry frames and then a frame whose first
\* byte is 0xFF, list_directory returns exactly those n entries in order,
\* has issued exactly n + 1 next-entry writes (0x0E), and then writes the
\* disconnect marker 0x04 as its last transport call.
C12_ListingOfNEntries ==
    ListingReturned =>
        LET n == Len(files)
        IN  /\ Len(calls) = 4 + (2 * (n + 1)) + 1
            /\ \A k \in 1..(n + 1) :
                  /\ NextWriteAt(k).dir = "w" /\ NextWriteAt(k).data = << 14 >>
                  /\ EntryReadAt(k).dir = "r" /\ EntryReadAt(k).ok
            /\ \A k \in 1..n :
                  /\ EntryReadAt(k).data[1] # 255
                  /\ EntryMatches(files[k], EntryReadAt(k).data)
            /\ EntryReadAt(n + 1).data[1] = 255
            /\ Cardinality({ i \in 1..Len(calls) :
                               calls[i].dir = "w" /\ calls[i].data = << 14 >> }) = n + 1
            /\ LastCall.dir = "w" /\ LastCall.data = << 4 >> /\ LastCall.ok

\* A listing of two different entries, the second one a directory, returned.
C12_Witness ==
    /\ ListingReturned
    /\ Len(files) = 2
    /\ files[1].type = "file" /\ files[1].size = 5 /\ files[1].name = << 97 >>
    /\ files[2].type = "dir" /\ files[2].name = << 233 >>

\* C13: against a device that stores what an upload sends and serves it
\* back in marker-prefixed chunks, file_write(path, B) leaves exactly B
\* stored under the path, and a later file_read of that path returns exactly
\* the stored bytes, whatever the length of B (0, 1, 253, 254 and more).
C13_RoundTrip ==
    /\ (device = "faithful" /\ op = "file_write" /\ Ended /\ err = "none") =>
           /\ store.has
           /\ store.data = file_content
           /\ store.path = SubSeq(Utf8Encode(remote_path), 1, Len(store.path))
    /\ (device = "faithful" /\ op = "file_read" /\ Ended /\ err = "none") =>
           /\ store.has
           /\ data_received = store.data
           /\ \A i \in 1..Len(data_received) :
                  data_received[i] = ((i * 3) + 1) % 256

\* A file of two full chunks and one byte came back whole.
C13_Witness ==
    /\ device = "faithful" /\ op = "file_read" /\ Ended /\ err = "none"
    /\ Len(data_received) = 507
    /\ data_received[254] = 251

\* C14: every disconnect writes exactly one byte, 0x04, and leaves the
\* session Disconnected whether or not the device acknowledges the write; no
\* disconnect routine of the client writes a different marker.
C14_DisconnectWritesCloseMarker ==
    \A i \in 1..Len(calls) :
        calls[i].what = "disconnect" =>
            /\ calls[i].dir = "w"
            /\ calls[i].data = << 4 >>
            /\ i = Len(calls)
            /\ state = "Disconnected"

\* C15: a timeout or fault on any transport write or read surfaces to the
\* caller as a transport error at once: the failed call is the last transport
\* call of its operation (it is not reissued and no later frame is written)
\* and the operation has ended with the transport error.
C15_FaultSurfacesAtOnce ==
    \A i \in 1..Len(calls) :
        ~calls[i].ok =>
            /\ i = Len(calls)
            /\ Ended
            /\ err = "USBError"

\* A download whose second data read faulted, after six calls that went well.
C15_Witness ==
    /\ op = "file_read"
    /\ Len(calls) = 7
    /\ LastCall.dir = "r" /\ LastCall.what = "data" /\ ~LastCall.ok
    /\ \A i \in 1..6 : calls[i].ok
    /\ err = "USBError"

\* An entry frame decode_entry must refuse: shorter than 13 bytes, or with no
\* NUL byte at or after offset 12.
EntryMalformed(d) == Len(d) < 13 \/ ~(\E e \in 13..Len(d) : d[e] = 0)

\* C16: a directory-entry frame (one that is not the end marker) shorter than
\* 13 bytes or with no NUL at or after offset 12 ends the listing with an
\* error: nothing is requested after it and no entry is made from it.
C16_MalformedEntryRejected ==
    \A i \in 1..Len(calls) :
        ( /\ calls[i].dir = "r" /\ calls[i].what = "entry" /\ calls[i].ok
          /\ (calls[i].data = << >> \/ calls[i].data[1] # 255)
          /\ EntryMalformed(calls[i].data) ) =>
            /\ i = Len(calls)
            /\ Ended
            /\ err \in { "IndexError", "StructError", "UnicodeDecodeError" }

\* The path handed to the operation holds a NUL character.
PathHasNul == \E k \in 1..Len(remote_path) : remote_path[k] = 0

\* C17: building a command frame for a path with an embedded NUL fails with
\* an encoding error: no command frame carrying the path is written, and an
\* operation that got past its connect ends with the encoding error.
C17_EmbeddedNulRejected ==
    (op \in { "file_write", "file_read", "list_directory" } /\ PathHasNul) =>
        /\ \A i \in 1..Len(calls) :
               ~(calls[i].dir = "w" /\ calls[i].what \in { "init", "request", "listdir" })
        /\ (Ended /\ Len(calls) >= 2 /\ calls[2].ok) => err = "EncodingError"

\* C18: every chunk frame file_write writes is the marker 0x05 followed by 1
\* to 253 payload bytes, every chunk frame but possibly the last carries
\* exactly 253, the payloads are the file content in order, and once the
\* chunk loop is over they add up to the whole content.
C18_ChunkFramesCarryContent ==
    op = "file_write" =>
        LET c == WritesOf("chunk")
        IN  /\ \A i \in c :
                  /\ i >= 5
                  /\ calls[i].data[1] = 5
                  /\ Len(calls[i].data) >= 2 /\ Len(calls[i].data) <= 254
                  /\ (\E j \in c : j > i) => Len(calls[i].data) = 254
                  /\ \A b \in 2..Len(calls[i].data) :
                        calls[i].data[b] = file_content[(253 * (i - 5)) + (b - 1)]
            /\ ChunkLoopDone =>
                  /\ Received(calls) = file_content
                  /\ Cardinality(c) = (Len(file_content) + 252) \div 253

\* An upload of 254 bytes left the chunk loop after a full chunk and a chunk
\* of one byte.
C18_Witness ==
    /\ ChunkLoopDone
    /\ Len(file_content) = 254
    /\ WritesOf("chunk") = { 5, 6 }
    /\ Len(calls[5].data) = 254
    /\ calls[6].data = << 5, file_content[254] >>

\* file_write has returned to the caller without an exception.
UploadReturned == op = "file_write" /\ Ended /\ err = "none"

\* C19: a successful file_write has made its transport calls in this order:
\* the connect write and its read, the write-init frame, one read whose
\* first byte is the proceed code 0x04, the chunk writes, one read ending in
\* FF 00, the disconnect write. For an empty file there is no chunk write
\* and the other six calls are all made.
C19_UploadCallOrder ==
    UploadReturned =>
        LET N == Cardinality(WritesOf("chunk"))
        IN  /\ Len(calls) = 6 + N
            /\ \A i \in 1..Len(calls) : calls[i].ok
            /\ calls[1].dir = "w" /\ calls[1].data = << 64, 96 >>
            /\ calls[2].dir = "r" /\ calls[2].what = "connect"
            /\ calls[3].dir = "w" /\ SubSeq(calls[3].data, 1, 2) = << 3, 1 >>
            /\ calls[4].dir = "r" /\ calls[4].data # << >> /\ calls[4].data[1] = 4
            /\ WritesOf("chunk") = 5..(4 + N)
            /\ (N = 0) <=> (file_content = << >>)
            /\ calls[5 + N].dir = "r"
            /\ Len(calls[5 + N].data) >= 2
            /\ calls[5 + N].data[Len(calls[5 + N].data) - 1] = 255
            /\ calls[5 + N].data[Len(calls[5 + N].data)] = 0
            /\ calls[6 + N].dir = "w" /\ calls[6 + N].data = << 4 >>

\* An empty file was uploaded: six calls, none of them a chunk write.
C19_Witness ==
    /\ UploadReturned
    /\ file_content = << >>
    /\ Len(calls) = 6
    /\ calls[3].data = << 3, 1, 47, 195, 169, 0, 0, 0, 0, 0 >>

\* The response d lacks the completion marker: its last two bytes are not
\* FF 00, or it has fewer than two bytes.
LacksMarker(d) == Len(d) < 2 \/ d[Len(d) - 1] # 255 \/ d[Len(d)] # 0

\* C20: a final response that lacks the completion marker FF 00 ends
\* file_write with the not-confirmed error straight after that read, and
\* file_write returns normally only after a final response that carries it.
C20_UnconfirmedUploadFails ==
    /\ \A i \in 1..Len(calls) :
          ( /\ calls[i].dir = "r" /\ calls[i].what = "final" /\ calls[i].ok
            /\ LacksMarker(calls[i].data) ) =>
              /\ i = Len(calls)
              /\ Ended
              /\ err = "UploadNotConfirmed"
    /\ UploadReturned =>
          \E i \in 1..Len(calls) :
              /\ calls[i].dir = "r" /\ calls[i].what = "final" /\ calls[i].ok
              /\ ~LacksMarker(calls[i].data)

\* An upload of 253 bytes answered with the single byte FF was not confirmed.
C20_Witness ==
    /\ op = "file_write"
    /\ Len(file_content) = 253
    /\ Len(calls) = 6
    /\ LastCall.what = "final" /\ LastCall.data = << 255 >>
    /\ Ended
    /\ err = "UploadNotConfirmed"

\* The data bytes that arrived in the data reads of a log: each frame
\* without its first byte, in arrival order.
RECURSIVE Arrived(_)
Arrived(log) ==
    IF log = << >> THEN << >>
    ELSE LET c == log[Len(log)]
         IN  Arrived(SubSeq(log, 1, Len(log) - 1))
             \o (IF c.dir = "r" /\ c.what = "data" /\ c.ok /\ c.data # << >>
                 THEN SubSeq(c.data, 2, Len(c.data)) ELSE << >>)

\* C21: in the receive loop of file_read every read requests exactly
\* min(bytes_remaining + 1, 254) bytes, bytes_remaining being the header's
\* total size minus the data bytes accumulated before that read; the first
\* byte of each frame is dropped and the rest appended in arrival order.
C21_RequestSizeAndStrip ==
    op = "file_read" =>
        /\ \A i \in 1..Len(calls) :
              calls[i].what = "data" =>
                  LET remaining == HeaderTotal - Len(Arrived(SubSeq(calls, 1, i - 1)))
                  IN  /\ calls[i].dir = "r"
                      /\ i >= 6
                      /\ calls[i].req =
                             (IF remaining + 1 < 254 THEN remaining + 1 ELSE 254)
        /\ data_received = Arrived(calls)

\* A download of 254 bytes: a full frame was requested and arrived, then the
\* last byte was requested with a read of two bytes.
C21_Witness ==
    /\ op = "file_read"
    /\ Len(calls) >= 7
    /\ calls[6].req = 254 /\ Len(calls[6].data) = 254
    /\ calls[7].req = 2 /\ calls[7].data = << 5, (254 * 7 + 11) % 256 >>
    /\ Len(data_received) = 254

\* The header file_read read is valid: 16 bytes or more, tagged 03 01.
HeaderAccepted ==
    /\ Len(calls) >= 4
    /\ calls[4].dir = "r" /\ calls[4].what = "header" /\ calls[4].ok
    /\ Len(calls[4].data) >= 16
    /\ SubSeq(calls[4].data, 1, 2) = << 3, 1 >>

\* C22: in file_read the begin byte 0x04 is written only after a valid
\* header was read and before any data read; the acknowledgment FF 00 is
\* written only when bytes_left is exactly zero, after the last data read,
\* and is followed by the disconnect write; a header reporting size 0 leads
\* to no data read and an empty result.
C22_BeginAndAckOrder ==
    op = "file_read" =>
        /\ \A i \in 1..Len(calls) :
              calls[i].what = "begin" =>
                  /\ i = 5
                  /\ calls[i].dir = "w" /\ calls[i].data = << 4 >>
                  /\ HeaderAccepted
        /\ \A i \in 1..Len(calls) : calls[i].what = "data" =>
              (i > 5 /\ calls[5].what = "begin" /\ calls[5].ok)
        /\ \A i \in 1..Len(calls) :
              calls[i].what = "ack" =>
                  /\ calls[i].dir = "w" /\ calls[i].data = << 255, 0 >>
                  /\ bytes_left = 0
                  /\ Len(data_received) = HeaderTotal
                  /\ \A j \in 6..(i - 1) : calls[j].what = "data" /\ calls[j].ok
                  /\ i >= Len(calls) - 1
                  /\ i = Len(calls) - 1 => IsDisconnectWrite(calls[i + 1])
                  /\ (calls[i].ok /\ i = Len(calls)) => pc = "close_w"
        /\ (HeaderAccepted /\ HeaderTotal = 0) =>
              /\ \A i \in 1..Len(calls) : calls[i].what # "data"
              /\ data_received = << >>

\* A download of an empty file returned: begin, acknowledgment and disconnect
\* were written with no data read in between.
C22_Witness ==
    /\ op = "file_read" /\ Ended /\ err = "none"
    /\ Len(calls) = 7
    /\ HeaderTotal = 0
    /\ calls[5].data = << 4 >> /\ calls[6].data = << 255, 0 >>
    /\ calls[7].data = << 4 >>
    /\ data_received = << >>

\* C23: every packet an operation writes to the bulk-out pipe is at most
\* 254 bytes long, the write-init, read-request and list-dir frames that
\* carry the caller's path included.
C23_WritesWithinMaxPacket ==
    \A i \in 1..Len(calls) :
        calls[i].dir = "w" => Len(calls[i].data) <= 254

\* C24: over any sequence of operations on one device object, operations
\* that ended with an error included, the connect handshake is never issued
\* while the session is still Connected: every operation leaves the session
\* Disconnected before the connect write of the next one.
C24_NoConnectWhileConnected ==
    /\ \A i \in 1..Len(calls) :
          (calls[i].dir = "w" /\ calls[i].what = "connect") =>
              calls[i].st = "Disconnected"
    /\ (op \in { "file_write", "file_read", "list_directory" } /\ Ended) =>
          state = "Disconnected"

\* ------------------------------------------------ termination of file_read
\* The receive loop taken one statement at a time, for the question whether
\* it ends. One pass: chunk_size, the read, the stall check, the strip, the
\* count and the extend; control then returns to the loop test. The log
\* keeps the latest data read only, so that a pass that changes nothing in
\* the program brings it back to the very state it was in.
file_read_loop_pass ==
    /\ pc = "fr_data_r"
    /\ \E ok \in BOOLEAN :
       \E n \in (IF ok THEN ServedLens(ChunkSize(bytes_left), Len(data_received))
                       ELSE { 0 }) :
          LET chunk == ServedFrame(Len(data_received), n)
              data_chunk == StripMarker(chunk)
              kept == IF LastCall.what = "data"
                      THEN SubSeq(calls, 1, Len(calls) - 1) ELSE calls
          IN  /\ calls' = Append(kept, ReadCall("data", ChunkSize(bytes_left), chunk, ok))
              /\ IF ~ok
                 THEN /\ pc' = "done" /\ err' = "USBError"
                      /\ UNCHANGED << bytes_left, data_received >>
                 ELSE IF Stalled(chunk)
                 THEN /\ pc' = "done" /\ err' = "UnexpectedTimeout"
                      /\ UNCHANGED << bytes_left, data_received >>
                 ELSE /\ bytes_left' = bytes_left - Len(data_chunk)
                      /\ data_received' = data_received \o data_chunk
                      /\ pc' = "fr_loop"
                      /\ err' = err
    /\ UNCHANGED << op, remote_path, file_content, offset, file_size, files,
                    state, startState, released, device, store >>

\* while bytes_left > 0
file_read_loop_test ==
    /\ pc = "fr_loop"
    /\ pc' = IF bytes_left > 0 THEN "fr_data_r" ELSE "fr_ack_w"
    /\ UNCHANGED << op, Locals, calls, state, startState, err, released, device, store >>

\* The caller invokes file_read.
InvokeFileRead == Invoke /\ op' = "file_read"

\* The steps file_read takes once invoked.
FileReadStep ==
    \/ connect_service_write
    \/ connect_service_read
    \/ file_read_request_write
    \/ file_read_header_read
    \/ file_read_reject_close
    \/ file_read_begin_write
    \/ file_read_loop_pass
    \/ file_read_loop_test
    \/ file_read_ack_write
    \/ close_service_write

ReadNext == InvokeFileRead \/ FileReadStep

\* A running file_read takes its next step: every transport call returns or
\* raises within its timeout, and nothing else holds the program up. The
\* device stays free in what it answers.
ReadSpec == Init /\ [][ReadNext]_vars /\ WF_vars(FileReadStep)

\* C25: file_read eventually terminates, with a result or with an error,
\* whatever the device answers within the size requested, a device that
\* keeps answering with the chunk marker alone included.
C25_FileReadTerminates ==
    (op = "file_read" /\ pc = "connect_w") ~> Ended

\* Call i of the log is a read that returned a frame starting with 0xFF.
EndFrameAt(i) ==
    /\ calls[i].dir = "r" /\ calls[i].what = "entry" /\ calls[i].ok
    /\ calls[i].data # << >> /\ calls[i].data[1] = 255

\* C26: list_directory returns a result, and writes its disconnect marker,
\* only after it has read a frame whose first byte is 0xFF; after every
\* other entry frame it neither returns nor disconnects: unless decoding
\* the frame raised, the next thing it does is one more next-entry request.
\* So against a device that never sends the marker it goes on asking.
C26_ListingEndsOnlyOnMarker ==
    op = "list_directory" =>
        /\ (Ended /\ err = "none") => \E i \in 1..Len(calls) : EndFrameAt(i)
        /\ \A j \in 1..Len(calls) :
              calls[j].what = "disconnect" => (j > 1 /\ EndFrameAt(j - 1))
        /\ \A i \in 1..Len(calls) :
              ( /\ calls[i].dir = "r" /\ calls[i].what = "entry" /\ calls[i].ok
                /\ ~EndFrameAt(i) ) =>
                  /\ i < Len(calls) =>
                        (calls[i + 1].dir = "w" /\ calls[i + 1].data = << 14 >>)
                  /\ i = Len(calls) =>
                        \/ pc = "ld_next_w" /\ err = "none"
                        \/ Ended /\ err \in { "IndexError", "StructError",
                                              "UnicodeDecodeError" }

\* Two entries were read, no end marker yet: the listing has not returned
\* and is about to ask for a third.
C26_Witness ==
    /\ op = "list_directory"
    /\ Len(files) = 2
    /\ pc = "ld_next_w"
    /\ \A i \in 1..Len(calls) : ~EndFrameAt(i) /\ calls[i].what # "disconnect"

\* Every data read so far returned at most the number of bytes requested.
ReadsWithinRequest ==
    \A i \in 1..Len(calls) :
        calls[i].what = "data" => Len(calls[i].data) <= calls[i].req

\* The receive loop of file_read is over.
ReceiveLoopDone ==
    \/ pc \in { "fr_ack_w", "close_w" }
    \/ \E i \in 1..Len(calls) : calls[i].what = "ack"

\* C27: in file_read, provided each transport read returns at most the
\* number of bytes requested, bytes_left is never negative; it is positive
\* whenever another pass of the receive loop is due and exactly zero once
\* the loop is over.
C27_BytesLeftNeverNegative ==
    (op = "file_read" /\ ReadsWithinRequest) =>
        /\ bytes_left >= 0
        /\ pc = "fr_data_r" => bytes_left > 0
        /\ ReceiveLoopDone => bytes_left = 0

\* A download of 507 bytes left the loop at zero after three data reads.
C27_Witness ==
    /\ op = "file_read"
    /\ pc = "fr_ack_w"
    /\ HeaderTotal = 507
    /\ DataReads = 3
    /\ bytes_left = 0

=============================================================================
